---- MODULE Spec2Model ----
(***************************************************************************)
(* Model of the sqlite adapter (package sqlite, sqlite.go).                *)
(*                                                                         *)
(* The adapter wraps three objects of Go's database/sql: *sql.DB           *)
(* (database), *sql.Tx (transaction) and *sql.Rows (rows).  Every adapter  *)
(* method is one call into database/sql followed by error wrapping.  The   *)
(* adapter methods are modelled from sqlite.go.  The calls they make       *)
(* (sql.Open, DB.Exec, Tx.Commit, Rows.Next, ...) are modelled at their    *)
(* call sites with the behaviour database/sql documents: sql.Open only     *)
(* validates the driver name, a finished Tx answers ErrTxDone, finishing a *)
(* Tx closes the Rows obtained from it, a closed Rows yields no rows.      *)
(* Failures of the engine itself are inputs: a statement the engine fails  *)
(* ("bad"), a short result stream, and a failure flag on Begin, Commit,    *)
(* Rollback and RowsAffected.                                              *)
(***************************************************************************)
EXTENDS Integers, Sequences, FiniteSets, TLC

VARIABLES
    db,      \* the handle returned by NewDatabase, or NoDB
    store,   \* the committed contents of table t in the database file
    txs,     \* the transactions obtained from Begin, in order of creation
    curs,    \* the cursors obtained from Query, in order of creation
    last     \* the last adapter call: what it invoked and what it returned

vars == <<db, store, txs, curs, last>>

\* ---------------------------------------------------------------- bounds
MaxHandles == 2 \* transactions and cursors obtained in one run
MaxRows == 2    \* rows the table holds, uncommitted ones included

Vals == {1}
TxIds == 1..MaxHandles
CurIds == 1..MaxHandles
DestCounts == 0..2

\* ------------------------------------------------------------ vocabulary
NoDB == [dsn |-> "none"]

\* "test.db" can be opened by the engine, "/nodir/test.db" cannot.
ValidSources == {"test.db"}
DataSources == {"test.db", "/nodir/test.db"}

\* The table has one column, as in CREATE TABLE t(id INTEGER).
Columns == <<"id">>

\* Statements handed to Execute and Query (the text is passed through).
\* "bad" is a statement the engine fails, whatever the reason.
Stmt(k, v) == [kind |-> k, v |-> v]
ExecStmts == {Stmt("insert", v) : v \in Vals} \cup {Stmt("bad", 0)}
QueryStmts == {Stmt("select", 0), Stmt("bad", 0)}

\* What the engine does with one statement on a table.
Apply(tbl, s) == IF s.kind = "insert" THEN Append(tbl, s.v) ELSE tbl

Affected(tbl, s) == IF s.kind = "insert" THEN 1 ELSE 0

RECURSIVE ApplyAll(_, _)
ApplyAll(tbl, log) ==
    IF log = <<>> THEN tbl
    ELSE ApplyAll(Apply(tbl, Head(log)), Tail(log))

\* The table as transaction t sees it: the file plus its own statements.
View(t) == ApplyAll(store, txs[t].log)

\* What a handle opened afresh on the same file reads.
FreshView == store

\* The engine admits one writer: another open transaction holding
\* uncommitted statements makes a write fail (database is locked).
Busy(t) == \E u \in DOMAIN txs : u # t /\ ~txs[u].done /\ txs[u].log # <<>>

\* One adapter call: the method, the object it was called on (id) as it was
\* before the call (pre), the table in the file before the call (was), the
\* number of Scan destinations (arg), what it returned (count or value n,
\* boolean or non-nil object ok, error err) and the database/sql operations
\* it invoked (calls).
Call(op, id, arg, pre, was, n, ok, err, calls) ==
    [op |-> op, id |-> id, arg |-> arg, pre |-> pre, was |-> was,
     n |-> n, ok |-> ok, err |-> err, calls |-> calls]

\* One database/sql operation as invoked: whether it reported an error, and
\* the count it returned.
Drv(op, err, n) == [op |-> op, err |-> err, n |-> n]

NoObj == [none |-> TRUE]

Init ==
    /\ db = NoDB
    /\ store = <<>>
    /\ txs = <<>>
    /\ curs = <<>>
    /\ last = Call("none", 0, 0, NoObj, <<>>, 0, FALSE, "nil", <<>>)

\* ------------------------------------------------- database/sql, as called
\* sql.Open("sqlite3", dataSource): the driver is registered by the blank
\* import, so the name is known; the data source is stored, not opened.
RegisteredDrivers == {"sqlite3"}

SqlOpen(driverName, dataSource) ==
    IF driverName \in RegisteredDrivers
    THEN [err |-> FALSE, db |-> [dsn |-> dataSource]]
    ELSE [err |-> TRUE, db |-> NoDB]

\* A pooled connection is opened on first use; it cannot be for a bad path.
ConnFails == db.dsn \notin ValidSources

\* d.DB.Exec
DBExec(s) ==
    IF ConnFails \/ s.kind # "insert" \/ Busy(0)
    THEN [err |-> TRUE, n |-> 0, store |-> store]
    ELSE [err |-> FALSE, n |-> Affected(store, s), store |-> Apply(store, s)]

\* result.RowsAffected
ResultRowsAffected(r, fail) ==
    IF fail THEN [err |-> TRUE, n |-> 0] ELSE [err |-> FALSE, n |-> r.n]

\* A fresh *sql.Rows whose stream delivers the first k rows of tbl: all of
\* them, or fewer when the engine fails midway (Next then answers false as
\* at the end of the rows).  rows are the rows still to come, row the
\* current one (0: none).  owed and sawFalse are history: the rows of the
\* stream less the Next calls that answered true, and whether a Next call
\* has answered false.
NewRows(owner, tbl, k) ==
    [owner |-> owner, rows |-> SubSeq(tbl, 1, k), row |-> 0, closed |-> FALSE,
     owed |-> k, sawFalse |-> FALSE]

\* Rows.Close releases the stream.
CloseRows(cur) == [cur EXCEPT !.closed = TRUE, !.rows = <<>>, !.row = 0]

\* d.DB.Query
DBQuery(s, k) ==
    IF ConnFails \/ s.kind # "select"
    THEN [err |-> TRUE, curs |-> curs]
    ELSE [err |-> FALSE, curs |-> Append(curs, NewRows(0, store, k))]

\* d.DB.Begin
DBBegin(fail) ==
    IF ConnFails \/ fail
    THEN [err |-> TRUE, txs |-> txs]
    ELSE [err |-> FALSE,
          txs |-> Append(txs, [done |-> FALSE, log |-> <<>>, wins |-> 0])]

\* Mutant: Exec does not look at whether the transaction is finished.
TxExec_IgnoresDone(t, s) ==
    IF s.kind # "insert" \/ Busy(t)
    THEN [err |-> TRUE, n |-> 0, txs |-> txs]
    ELSE [err |-> FALSE, n |-> Affected(View(t), s),
          txs |-> [txs EXCEPT ![t].log = Append(@, s)]]

\* t.Tx.Exec: ErrTxDone once the transaction is finished.
TxExec(t, s) ==
    IF txs[t].done \/ s.kind # "insert" \/ Busy(t)
    THEN [err |-> TRUE, n |-> 0, txs |-> txs]
    ELSE [err |-> FALSE, n |-> Affected(View(t), s),
          txs |-> [txs EXCEPT ![t].log = Append(@, s)]]

\* t.Tx.Query: ErrTxDone once the transaction is finished.
TxQuery(t, s, k) ==
    IF txs[t].done \/ s.kind # "select"
    THEN [err |-> TRUE, curs |-> curs]
    ELSE [err |-> FALSE, curs |-> Append(curs, NewRows(t, View(t), k))]

\* Mutant: finishing a transaction leaves its Rows open.
CloseOwned_LeavesOpen(cs, t) == cs

\* Finishing a transaction closes the Rows obtained from it.
CloseOwned(cs, t) ==
    [c \in DOMAIN cs |->
        IF cs[c].owner = t THEN CloseRows(cs[c]) ELSE cs[c]]

Finish(tx, t) == [tx EXCEPT ![t].done = TRUE, ![t].log = <<>>]

\* t.Tx.Rollback: ErrTxDone if finished, else the transaction is finished
\* whatever the engine answers, and its statements are dropped.
TxRollback(tx, cs, st, t, fail) ==
    IF tx[t].done
    THEN [err |-> TRUE, txs |-> tx, curs |-> cs, store |-> st]
    ELSE [err |-> fail, txs |-> Finish(tx, t), curs |-> CloseOwned(cs, t),
          store |-> st]

\* t.Tx.Commit: ErrTxDone if finished, else the transaction is finished; the
\* statements reach the file unless the engine fails the commit.
TxCommit(tx, cs, st, t, fail) ==
    IF tx[t].done
    THEN [err |-> TRUE, txs |-> tx, curs |-> cs, store |-> st]
    ELSE [err |-> fail, txs |-> Finish(tx, t), curs |-> CloseOwned(cs, t),
          store |-> IF fail THEN st ELSE ApplyAll(st, tx[t].log)]

\* r.Rows.Next on one cursor: false once closed; else one step of the
\* stream, which closes the cursor when the stream ends.
SqlRowsNext(cur) ==
    IF cur.closed THEN [ok |-> FALSE, cur |-> cur]
    ELSE IF cur.rows # <<>>
    THEN [ok |-> TRUE,
          cur |-> [cur EXCEPT !.row = Head(cur.rows), !.rows = Tail(cur.rows)]]
    ELSE [ok |-> FALSE, cur |-> CloseRows(cur)]

\* r.Rows.Scan on one cursor with ndest destinations: the cursor is not
\* moved; it fails when closed, before the first Next, on a destination
\* count other than the column count.
SqlRowsScan(cur, ndest) ==
    IF cur.closed \/ cur.row = 0 \/ ndest # Len(Columns)
    THEN [err |-> TRUE, val |-> 0, cur |-> cur]
    ELSE [err |-> FALSE, val |-> cur.row, cur |-> cur]

\* ---------------------------------------------------- the adapter's methods
\* What a method returns and leaves behind: the returned count n, the
\* returned boolean or non-nil object ok, the returned error, the
\* database/sql operations invoked, and the state afterwards.
Out(n, ok, err, calls, d, st, tx, cs) ==
    [n |-> n, ok |-> ok, err |-> err, calls |-> calls,
     db |-> d, store |-> st, txs |-> tx, curs |-> cs]

\* Mutant: Next advances the stream twice and answers the second result.
rows_Next_Skips(c) ==
    LET r1 == SqlRowsNext(curs[c])
        r == SqlRowsNext(r1.cur)
    IN Out(0, r.ok, "nil",
           <<Drv("Rows.Next", FALSE, 0), Drv("Rows.Next", FALSE, 0)>>,
           db, store, txs, [curs EXCEPT ![c] = r.cur])

\* func (r *rows) Next() bool
rows_Next(c) ==
    LET r == SqlRowsNext(curs[c])
    IN Out(0, r.ok, "nil", <<Drv("Rows.Next", FALSE, 0)>>,
           db, store, txs, [curs EXCEPT ![c] = r.cur])

\* Mutant: a failed Scan moves on to the next row.
rows_Scan_Advances(c, ndest) ==
    LET r == SqlRowsScan(curs[c], ndest)
    IN IF r.err
       THEN Out(0, FALSE, "ScanError", <<Drv("Rows.Scan", TRUE, 0)>>,
                db, store, txs, [curs EXCEPT ![c] = SqlRowsNext(r.cur).cur])
       ELSE Out(r.val, TRUE, "nil", <<Drv("Rows.Scan", FALSE, 0)>>,
                db, store, txs, [curs EXCEPT ![c] = r.cur])

\* func (r *rows) Scan(dest ...interface{}) error
rows_Scan(c, ndest) ==
    LET r == SqlRowsScan(curs[c], ndest)
        cs == [curs EXCEPT ![c] = r.cur]
    IN IF r.err
       THEN Out(0, FALSE, "ScanError", <<Drv("Rows.Scan", TRUE, 0)>>,
                db, store, txs, cs)
       ELSE Out(r.val, TRUE, "nil", <<Drv("Rows.Scan", FALSE, 0)>>,
                db, store, txs, cs)

\* Mutant: Execute rolls the transaction back when the statement fails.
transaction_Execute_RollsBack(t, s, fail) ==
    LET r == TxExec(t, s)
        a == ResultRowsAffected(r, fail)
        b == TxRollback(r.txs, curs, store, t, FALSE)
    IN IF r.err
       THEN Out(0, FALSE, "ExecError",
                <<Drv("Tx.Exec", TRUE, 0), Drv("Tx.Rollback", b.err, 0)>>,
                db, b.store, b.txs, b.curs)
       ELSE IF a.err
       THEN Out(0, FALSE, "AffectedCountError",
                <<Drv("Tx.Exec", FALSE, r.n), Drv("Result.RowsAffected", TRUE, 0)>>,
                db, store, r.txs, curs)
       ELSE Out(a.n, TRUE, "nil",
                <<Drv("Tx.Exec", FALSE, r.n), Drv("Result.RowsAffected", FALSE, a.n)>>,
                db, store, r.txs, curs)

\* func (t *transaction) Execute(statement string, args ...interface{}) (int64, error)
transaction_Execute(t, s, fail) ==
    LET r == TxExec(t, s)
        a == ResultRowsAffected(r, fail)
    IN IF r.err
       THEN Out(0, FALSE, "ExecError", <<Drv("Tx.Exec", TRUE, 0)>>,
                db, store, r.txs, curs)
       ELSE IF a.err
       THEN Out(0, FALSE, "AffectedCountError",
                <<Drv("Tx.Exec", FALSE, r.n), Drv("Result.RowsAffected", TRUE, 0)>>,
                db, store, r.txs, curs)
       ELSE Out(a.n, TRUE, "nil",
                <<Drv("Tx.Exec", FALSE, r.n), Drv("Result.RowsAffected", FALSE, a.n)>>,
                db, store, r.txs, curs)

\* func (t *transaction) Query(statement string, args ...interface{}) (sql2.Rows, error)
transaction_Query(t, s, k) ==
    LET r == TxQuery(t, s, k)
    IN IF r.err
       THEN Out(0, FALSE, "QueryError", <<Drv("Tx.Query", TRUE, 0)>>,
                db, store, txs, r.curs)
       ELSE Out(Len(r.curs), TRUE, "nil", <<Drv("Tx.Query", FALSE, 0)>>,
                db, store, txs, r.curs)

\* Mutant: Rollback calls t.Tx.Commit.
transaction_Rollback_Commits(t, fail) ==
    LET r == TxCommit(txs, curs, store, t, fail)
    IN IF r.err
       THEN Out(0, FALSE, "RollbackError", <<Drv("Tx.Rollback", TRUE, 0)>>,
                db, r.store, r.txs, r.curs)
       ELSE Out(0, TRUE, "nil", <<Drv("Tx.Rollback", FALSE, 0)>>,
                db, r.store, r.txs, r.curs)

\* func (t *transaction) Rollback() error
transaction_Rollback(t, fail) ==
    LET r == TxRollback(txs, curs, store, t, fail)
    IN IF r.err
       THEN Out(0, FALSE, "RollbackError", <<Drv("Tx.Rollback", TRUE, 0)>>,
                db, r.store, r.txs, r.curs)
       ELSE Out(0, TRUE, "nil", <<Drv("Tx.Rollback", FALSE, 0)>>,
                db, r.store, r.txs, r.curs)

\* Mutant: Commit drops the error of t.Tx.Commit.
transaction_Commit_Swallows(t, fail) ==
    LET r == TxCommit(txs, curs, store, t, fail)
    IN Out(0, TRUE, "nil", <<Drv("Tx.Commit", r.err, 0)>>,
           db, r.store, r.txs, r.curs)

\* func (t *transaction) Commit() error
transaction_Commit(t, fail) ==
    LET r == TxCommit(txs, curs, store, t, fail)
    IN IF r.err
       THEN Out(0, FALSE, "CommitError", <<Drv("Tx.Commit", TRUE, 0)>>,
                db, r.store, r.txs, r.curs)
       ELSE Out(0, TRUE, "nil", <<Drv("Tx.Commit", FALSE, 0)>>,
                db, r.store, r.txs, r.curs)

\* Mutant: Execute returns the count of the result beside the error.
database_Execute_KeepsCount(s, fail) ==
    LET r == DBExec(s)
        a == ResultRowsAffected(r, fail)
    IN IF r.err
       THEN Out(0, FALSE, "ExecError", <<Drv("DB.Exec", TRUE, 0)>>,
                db, r.store, txs, curs)
       ELSE IF a.err
       THEN Out(r.n, FALSE, "AffectedCountError",
                <<Drv("DB.Exec", FALSE, r.n), Drv("Result.RowsAffected", TRUE, 0)>>,
                db, r.store, txs, curs)
       ELSE Out(a.n, TRUE, "nil",
                <<Drv("DB.Exec", FALSE, r.n), Drv("Result.RowsAffected", FALSE, a.n)>>,
                db, r.store, txs, curs)

\* func (d *database) Execute(statement string, args ...interface{}) (int64, error)
database_Execute(s, fail) ==
    LET r == DBExec(s)
        a == ResultRowsAffected(r, fail)
    IN IF r.err
       THEN Out(0, FALSE, "ExecError", <<Drv("DB.Exec", TRUE, 0)>>,
                db, r.store, txs, curs)
       ELSE IF a.err
       THEN Out(0, FALSE, "AffectedCountError",
                <<Drv("DB.Exec", FALSE, r.n), Drv("Result.RowsAffected", TRUE, 0)>>,
                db, r.store, txs, curs)
       ELSE Out(a.n, TRUE, "nil",
                <<Drv("DB.Exec", FALSE, r.n), Drv("Result.RowsAffected", FALSE, a.n)>>,
                db, r.store, txs, curs)

\* func (d *database) Query(statement string, args ...interface{}) (sql2.Rows, error)
database_Query(s, k) ==
    LET r == DBQuery(s, k)
    IN IF r.err
       THEN Out(0, FALSE, "QueryError", <<Drv("DB.Query", TRUE, 0)>>,
                db, store, txs, r.curs)
       ELSE Out(Len(r.curs), TRUE, "nil", <<Drv("DB.Query", FALSE, 0)>>,
                db, store, txs, r.curs)

\* Mutant: Begin tries d.DB.Begin again when it fails.
database_Begin_Retries(fail) ==
    LET r1 == DBBegin(fail)
        r == IF r1.err THEN DBBegin(FALSE) ELSE r1
        calls == IF r1.err
                 THEN <<Drv("DB.Begin", TRUE, 0), Drv("DB.Begin", r.err, 0)>>
                 ELSE <<Drv("DB.Begin", FALSE, 0)>>
    IN IF r.err
       THEN Out(0, FALSE, "BeginError", calls, db, store, r.txs, curs)
       ELSE Out(Len(r.txs), TRUE, "nil", calls, db, store, r.txs, curs)

\* func (d *database) Begin() (sql2.Transaction, error)
database_Begin(fail) ==
    LET r == DBBegin(fail)
    IN IF r.err
       THEN Out(0, FALSE, "BeginError", <<Drv("DB.Begin", TRUE, 0)>>,
                db, store, r.txs, curs)
       ELSE Out(Len(r.txs), TRUE, "nil", <<Drv("DB.Begin", FALSE, 0)>>,
                db, store, r.txs, curs)

\* func NewDatabase(dataSource string) (sql2.Database, error)
NewDatabaseResult(dataSource) ==
    LET r == SqlOpen("sqlite3", dataSource)
    IN IF r.err
       THEN Out(0, FALSE, "OpenError", <<Drv("sql.Open", TRUE, 0)>>,
                NoDB, store, txs, curs)
       ELSE Out(0, TRUE, "nil", <<Drv("sql.Open", FALSE, 0)>>,
                r.db, store, txs, curs)

\* func New(dataSource string) (sql2.Database, error)
NewResult(dataSource) == NewDatabaseResult(dataSource)

\* ------------------------------------------------------------------ actions
\* A call leaves the state its method computed and is recorded in last.
Returns(op, id, arg, pre, o) ==
    /\ db' = o.db
    /\ store' = o.store
    /\ last' = Call(op, id, arg, pre, FreshView, o.n, o.ok, o.err, o.calls)

NewDatabase(ds) ==
    /\ db = NoDB
    /\ Returns("NewDatabase", 0, 0, NoObj, NewDatabaseResult(ds))
    /\ UNCHANGED <<txs, curs>>

New(ds) ==
    /\ db = NoDB
    /\ Returns("New", 0, 0, NoObj, NewResult(ds))
    /\ UNCHANGED <<txs, curs>>

DatabaseExecute(s, fail) ==
    /\ db # NoDB
    /\ s.kind = "insert" => Len(store) < MaxRows
    /\ Returns("Database.Execute", 0, 0, NoObj, database_Execute(s, fail))
    /\ UNCHANGED <<txs, curs>>

DatabaseQuery(s, k) ==
    /\ db # NoDB
    /\ Len(txs) + Len(curs) < MaxHandles
    /\ k \in 0..Len(store)
    /\ LET o == database_Query(s, k)
       IN Returns("Database.Query", 0, 0, NoObj, o) /\ curs' = o.curs
    /\ UNCHANGED txs

DatabaseBegin(fail) ==
    /\ db # NoDB
    /\ Len(txs) + Len(curs) < MaxHandles
    /\ LET o == database_Begin(fail)
       IN Returns("Database.Begin", 0, 0, NoObj, o) /\ txs' = o.txs
    /\ UNCHANGED curs

TransactionExecute(t, s, fail) ==
    /\ t \in DOMAIN txs
    /\ s.kind = "insert" => Len(View(t)) < MaxRows
    /\ LET o == transaction_Execute(t, s, fail)
       IN /\ Returns("Transaction.Execute", t, 0, txs[t], o)
          /\ txs' = o.txs
          /\ curs' = o.curs

TransactionQuery(t, s, k) ==
    /\ t \in DOMAIN txs
    /\ Len(txs) + Len(curs) < MaxHandles
    /\ k \in 0..Len(View(t))
    /\ LET o == transaction_Query(t, s, k)
       IN /\ Returns("Transaction.Query", t, 0, txs[t], o)
          /\ txs' = o.txs
          /\ curs' = o.curs

\* wins counts the finalizing calls on a transaction that returned nil.
Won(tx, t, o) == [tx EXCEPT ![t].wins = IF o.err = "nil" THEN @ + 1 ELSE @]

TransactionRollback(t, fail) ==
    /\ t \in DOMAIN txs
    /\ LET o == transaction_Rollback(t, fail)
       IN /\ Returns("Transaction.Rollback", t, 0, txs[t], o)
          /\ txs' = Won(o.txs, t, o)
          /\ curs' = o.curs

TransactionCommit(t, fail) ==
    /\ t \in DOMAIN txs
    /\ LET o == transaction_Commit(t, fail)
       IN /\ Returns("Transaction.Commit", t, 0, txs[t], o)
          /\ txs' = Won(o.txs, t, o)
          /\ curs' = o.curs

RowsNext(c) ==
    /\ c \in DOMAIN curs
    /\ LET o == rows_Next(c)
       IN /\ Returns("Rows.Next", c, 0, curs[c], o)
          /\ curs' = [o.curs EXCEPT ![c].owed = IF o.ok THEN @ - 1 ELSE @,
                                    ![c].sawFalse = @ \/ ~o.ok]
    /\ UNCHANGED txs

RowsScan(c, ndest) ==
    /\ c \in DOMAIN curs
    /\ LET o == rows_Scan(c, ndest)
       IN Returns("Rows.Scan", c, ndest, curs[c], o) /\ curs' = o.curs
    /\ UNCHANGED txs

Next ==
    \/ \E ds \in DataSources : NewDatabase(ds)
    \/ \E ds \in DataSources : New(ds)
    \/ \E s \in ExecStmts, f \in BOOLEAN : DatabaseExecute(s, f)
    \/ \E s \in QueryStmts, k \in 0..MaxRows : DatabaseQuery(s, k)
    \/ \E f \in BOOLEAN : DatabaseBegin(f)
    \/ \E t \in TxIds, s \in ExecStmts, f \in BOOLEAN : TransactionExecute(t, s, f)
    \/ \E t \in TxIds, s \in QueryStmts, k \in 0..MaxRows : TransactionQuery(t, s, k)
    \/ \E t \in TxIds, f \in BOOLEAN : TransactionRollback(t, f)
    \/ \E t \in TxIds, f \in BOOLEAN : TransactionCommit(t, f)
    \/ \E c \in CurIds : RowsNext(c)
    \/ \E c \in CurIds, nd \in DestCounts : RowsScan(c, nd)

Spec == Init /\ [][Next]_vars

\* ------------------------------------------------------------------- claims
IsFinalize == last.op \in {"Transaction.Commit", "Transaction.Rollback"}
IsTxRun == last.op \in {"Transaction.Execute", "Transaction.Query"}
IsExecute == last.op \in {"Database.Execute", "Transaction.Execute"}
IsOpen == last.op \in {"NewDatabase", "New"}

\* C1: of the Commit and Rollback calls on one transaction at most one
\* returns nil, and every Commit or Rollback issued after a call that
\* returned nil returns CommitError or RollbackError.
C1_FinalizedAtMostOnce ==
    /\ \A t \in DOMAIN txs : txs[t].wins <= 1
    /\ last.op = "Transaction.Commit" /\ last.pre.wins >= 1
           => last.err = "CommitError"
    /\ last.op = "Transaction.Rollback" /\ last.pre.wins >= 1
           => last.err = "RollbackError"

\* A Commit or Rollback on an already finalized transaction was refused.
C1_Witness == IsFinalize /\ last.pre.wins = 1 /\ last.err # "nil"

\* C2: after a Rollback that returned nil a fresh handle reads the table as
\* it was, after a Commit that returned nil it reads the table with all the
\* transaction's statements applied, and no call on a transaction leaves
\* the table in any other state: none or all, never some.
C2_AllOrNothing ==
    /\ last.op = "Transaction.Rollback" => FreshView = last.was
    /\ last.op = "Transaction.Commit" /\ last.err = "nil"
           => FreshView = ApplyAll(last.was, last.pre.log)
    /\ last.op = "Transaction.Commit" /\ last.err # "nil"
           => FreshView = last.was
    /\ IsTxRun => FreshView = last.was

\* A transaction holding an insert was rolled back.
C2_Witness ==
    /\ last.op = "Transaction.Rollback"
    /\ last.err = "nil"
    /\ \E i \in DOMAIN last.pre.log : last.pre.log[i].kind = "insert"

\* C3: on a transaction finalized by a Commit or Rollback that returned nil,
\* Execute returns (0, error) and Query returns (nil, error); the call is
\* forwarded to database/sql, and neither the file nor the transaction
\* changes.
C3_NoUseAfterFinalize ==
    /\ last.op = "Transaction.Execute" /\ last.pre.wins >= 1
           => /\ last.n = 0
              /\ last.err = "ExecError"
              /\ last.calls = <<Drv("Tx.Exec", TRUE, 0)>>
    /\ last.op = "Transaction.Query" /\ last.pre.wins >= 1
           => /\ ~last.ok
              /\ last.err = "QueryError"
              /\ last.calls = <<Drv("Tx.Query", TRUE, 0)>>
    /\ IsTxRun /\ last.pre.wins >= 1
           => FreshView = last.was /\ txs[last.id] = last.pre

\* Execute was called on a finalized transaction.
C3_Witness ==
    last.op = "Transaction.Execute" /\ last.pre.wins = 1 /\ last.err # "nil"

\* C4: NewDatabase and New return a handle and nil for a valid data source,
\* and no handle and OpenError for a path that cannot be opened.
C4_OpenFailsOnBadPath ==
    IsOpen =>
        \/ db # NoDB /\ db.dsn \in ValidSources /\ last.ok /\ last.err = "nil"
        \/ db = NoDB /\ ~last.ok /\ last.err = "OpenError"

\* The transaction that cursor c came from is finished.
Invalidated(c) == curs[c].owner # 0 /\ txs[curs[c].owner].done

\* C5: a cursor over N rows answers true to exactly N Next calls and then
\* false: no true is given beyond the rows of the stream, false is given
\* only when none is left (on a cursor that the end of its transaction has
\* not invalidated), an open cursor has neither skipped nor held back a
\* row, and one Next call is one advance of the stream.
C5_NextYieldsEachRowOnce ==
    /\ \A c \in DOMAIN curs :
           /\ curs[c].owed >= 0
           /\ ~curs[c].closed => curs[c].owed = Len(curs[c].rows)
           /\ curs[c].sawFalse /\ ~Invalidated(c) => curs[c].owed = 0
    /\ last.op = "Rows.Next" => last.calls = <<Drv("Rows.Next", FALSE, 0)>>
    /\ last.op = "Rows.Next" /\ ~last.pre.closed /\ last.pre.owed = 0
           => ~last.ok

\* Next answered false after the last row of a cursor had been delivered.
C5_Witness ==
    /\ last.op = "Rows.Next"
    /\ ~last.ok
    /\ ~last.pre.closed
    /\ last.pre.row # 0
    /\ curs[last.id].owed = 0

\* A query over the empty table: the first Next answered false.
C5_EmptyWitness ==
    /\ last.op = "Rows.Next"
    /\ ~last.ok
    /\ ~last.pre.closed
    /\ last.pre.row = 0
    /\ last.pre.owner = 0
    /\ last.was = <<>>

\* C6: Execute, on the handle and on a transaction, returns one of
\* (0, ExecError) having invoked Exec alone, (0, AffectedCountError) having
\* invoked Exec and then RowsAffected, or (n, nil) with n the count
\* RowsAffected returned.
C6_ExecuteOutcomes ==
    IsExecute =>
        LET exec == IF last.op = "Database.Execute" THEN "DB.Exec" ELSE "Tx.Exec"
            c == last.calls
        IN \/ /\ last.err = "ExecError"
              /\ last.n = 0
              /\ c = <<Drv(exec, TRUE, 0)>>
           \/ /\ last.err = "AffectedCountError"
              /\ last.n = 0
              /\ Len(c) = 2
              /\ c[1].op = exec /\ ~c[1].err
              /\ c[2] = Drv("Result.RowsAffected", TRUE, 0)
           \/ /\ last.err = "nil"
              /\ Len(c) = 2
              /\ c[1].op = exec /\ ~c[1].err
              /\ c[2].op = "Result.RowsAffected" /\ ~c[2].err
              /\ last.n = c[2].n

\* Execute ran an insert and could not get the count.
C6_Witness ==
    /\ last.op = "Database.Execute"
    /\ last.err = "AffectedCountError"
    /\ last.calls[1].n = 1

\* C7: an adapter call invokes each database/sql operation at most once and
\* returns an error exactly when an operation it invoked reported one.
C7_NoRetryNoSwallow ==
    last.op # "none" =>
        /\ \A i, j \in DOMAIN last.calls :
               i # j => last.calls[i].op # last.calls[j].op
        /\ (last.err # "nil") <=> (\E i \in DOMAIN last.calls : last.calls[i].err)

\* Begin failed on a handle whose data source is valid.
C7_Witness ==
    /\ last.op = "Database.Begin"
    /\ last.err = "BeginError"
    /\ db.dsn \in ValidSources

\* C8: Next answers true neither on a cursor on which it has answered false
\* nor on a cursor whose transaction is finished, and Scan on a cursor on
\* which Next has answered false returns ScanError.
C8_CursorInvalidated ==
    /\ last.op = "Rows.Next" /\ last.ok
           => /\ ~last.pre.sawFalse
              /\ last.pre.owner # 0 => ~txs[last.pre.owner].done
    /\ last.op = "Rows.Scan" /\ last.pre.sawFalse => last.err = "ScanError"

\* Next answered false on a cursor that its transaction's end had closed
\* with rows still to come.
C8_Witness ==
    /\ last.op = "Rows.Next"
    /\ ~last.ok
    /\ last.pre.closed
    /\ ~last.pre.sawFalse
    /\ last.pre.owed > 0
    /\ last.pre.owner # 0
    /\ txs[last.pre.owner].wins = 1

\* C9: Scan with a number of destinations other than the number of columns
\* returns ScanError with the cause database/sql reported, and leaves the
\* cursor where it was.
C9_ScanMismatch ==
    last.op = "Rows.Scan" /\ last.arg # Len(Columns)
        => /\ last.err = "ScanError"
           /\ last.calls = <<Drv("Rows.Scan", TRUE, 0)>>
           /\ curs[last.id] = last.pre

\* Scan with the wrong number of destinations on a row, with rows to come.
C9_Witness ==
    /\ last.op = "Rows.Scan"
    /\ last.arg # Len(Columns)
    /\ last.pre.row # 0
    /\ last.pre.rows # <<>>
    /\ last.err = "ScanError"

\* The transaction of the last call is open, and a Commit that the engine
\* does not fail returns nil and puts exactly the statements of log into
\* the file.
CommitWouldPersist(log) ==
    /\ ~txs[last.id].done
    /\ txs[last.id].log = log
    /\ LET o == transaction_Commit(last.id, FALSE)
       IN o.err = "nil" /\ o.store = ApplyAll(store, log)

\* C10 as claimed: an Execute or Query that returns an error on an open
\* transaction leaves it open with the statements it held, the failed one
\* adding nothing, and Commit then succeeds and persists exactly those.
C10_FailedCallAddsNothing ==
    IsTxRun /\ last.err # "nil" /\ ~last.pre.done
        => CommitWouldPersist(last.pre.log)

\* C10 as amended: an Execute or Query that returns an error on an open
\* transaction invokes neither Commit nor Rollback and leaves it open; a
\* statement that failed with ExecError or QueryError adds nothing, one
\* that failed with AffectedCountError was executed and is held; Commit
\* then persists exactly the statements held.
C10_FailedCallKeepsOpen ==
    IsTxRun /\ last.err # "nil" /\ ~last.pre.done
        => /\ \A i \in DOMAIN last.calls :
                  last.calls[i].op \notin {"Tx.Commit", "Tx.Rollback"}
           /\ IF last.err = "AffectedCountError"
              THEN /\ Len(txs[last.id].log) = Len(last.pre.log) + 1
                   /\ CommitWouldPersist(txs[last.id].log)
                   /\ SubSeq(txs[last.id].log, 1, Len(last.pre.log)) = last.pre.log
              ELSE CommitWouldPersist(last.pre.log)

\* A statement failed in an open transaction that held a statement.
C10_Witness ==
    /\ last.op = "Transaction.Execute"
    /\ last.err = "ExecError"
    /\ ~last.pre.done
    /\ last.pre.log # <<>>

====
